---- MODULE Spec2Model ----
(***************************************************************************)
(* A model of openmodes/operator/singularities.py: the MultiSparse store   *)
(* (a dictionary of row dictionaries converted to compressed sparse row    *)
(* arrays) and singular_impedance_rwg, which fills three such stores for   *)
(* the touching triangle pairs of a mesh and caches the converted result   *)
(* in the module-level dictionary cached_singular_terms.                   *)
(***************************************************************************)
EXTENDS Integers, Sequences, FiniteSets, TLC

VARIABLES
    store,      \* a MultiSparse object exercised on its own
    csr,        \* what the last to_csr call on store gave, "none" before one
    inserts,    \* how many __setitem__ calls store has seen
    cached_singular_terms,  \* the module-level cache: unique_id -> object
    nextObj,    \* identity given to the next result object created
    calls,      \* how many calls of singular_impedance_rwg were started
    pc,         \* per worker: "idle", "loop", "convert", "return", "done"
    args,       \* per worker: the arguments its current call still reads
    unique_id,  \* per worker: the cache key of its current call
    p,          \* per worker: the observer triangle of the outer loop
    sharing_triangles,  \* per worker: the sources of p not yet integrated
    singular_terms,     \* per worker: the three stores being filled
    result,     \* per worker: how its last call ended and what it returned
    work,       \* per worker: quadratures and adjacency computations of its call
    first,      \* key material -> identity of the object first returned for it
    requested,  \* the key material of every call that passed the basis check
    modes,      \* a Mode Set: the sequence of its Refined Modes
    selection,  \* how the last select on modes ended and what it returned
    conjugations,   \* how many times add_conjugates replaced modes
    pairing,    \* how add_conjugates decides that a mode is paired
    estimates,  \* the Pole Estimates given to the Pole Refiner
    max_iter,   \* the iteration cap given to the Pole Refiner
    rpc,        \* the Pole Refiner: "idle", "refining", "done"
    estimate_index, \* the estimate being refined, counted from 1
    iterations, \* update steps done on that estimate
    current,    \* the iterate s of that estimate
    previous,   \* the iterate before current
    converged,  \* whether the last update changed s by less than the tolerance
    refined,    \* the Refined Modes accepted so far
    script,     \* the arguments of the calls a scripted caller makes, in order
    set_order   \* the order in which this interpreter iterates a set of triangles

msVars == <<store, csr, inserts>>
callVars == <<cached_singular_terms, nextObj, calls, pc, args, unique_id, p, sharing_triangles, singular_terms, result, work, first, requested>>
modeVars == <<modes, selection, conjugations, pairing>>
refVars == <<estimates, max_iter, rpc, estimate_index, iterations, current, previous, converged, refined>>
vars == <<store, csr, inserts, cached_singular_terms, nextObj, calls, pc, args, unique_id, p, sharing_triangles, singular_terms, result, work, first, requested, modes, selection, conjugations, pairing, estimates, max_iter, rpc, estimate_index, iterations, current, previous, converged, refined, script, set_order>>

(***************************************************************************)
(* Bounds of the model.                                                    *)
(***************************************************************************)
MaxInserts == 3
MaxRow == 2
MaxCol == 1
MaxCalls == 2
NumTols == 2
NumTermCounts == 2
NumWorkers == 2

RowKeys == {-1} \cup (0 .. MaxRow)
ColKeys == 0 .. MaxCol
SubValues == {10, 11}
\* what an np.empty slot that is never written may hold
Garbage == {0, 99}

(***************************************************************************)
(* MultiSparse.  rows is a dictionary of dictionaries; both keep insertion *)
(* order, so each is a sequence of key/value records without repeated key. *)
(***************************************************************************)
MultiSparse(subarrays) == [rows |-> << >>, subarrays |-> subarrays]

RowPos(ms, row) == {i \in 1 .. Len(ms.rows) : ms.rows[i].row = row}

ColPos(row_dict, col) == {j \in 1 .. Len(row_dict) : row_dict[j].col = col}

HasRow(ms, row) == RowPos(ms, row) # {}

RowDict(ms, row) == ms.rows[CHOOSE i \in RowPos(ms, row) : TRUE].cols

RowKeySet(ms) == {ms.rows[i].row : i \in 1 .. Len(ms.rows)}

\* an insertion that adds an entry to the row even when the column is there
SetItemAppends(ms, row, col, item) ==
    IF HasRow(ms, row)
    THEN LET i == CHOOSE i \in RowPos(ms, row) : TRUE
         IN [ms EXCEPT !.rows[i].cols = Append(@, [col |-> col, item |-> item])]
    ELSE [ms EXCEPT !.rows = Append(ms.rows, [row |-> row, cols |-> <<[col |-> col, item |-> item]>>])]

\* self.rows[row][col] = item, or self.rows[row] = {col: item} on KeyError
SetItem(ms, row, col, item) ==
    IF HasRow(ms, row)
    THEN LET i == CHOOSE i \in RowPos(ms, row) : TRUE
             row_dict == ms.rows[i].cols
         IN IF ColPos(row_dict, col) # {}
            THEN LET j == CHOOSE j \in ColPos(row_dict, col) : TRUE
                 IN [ms EXCEPT !.rows[i].cols[j].item = item]
            ELSE [ms EXCEPT !.rows[i].cols = Append(@, [col |-> col, item |-> item])]
    ELSE [ms EXCEPT !.rows = Append(ms.rows, [row |-> row, cols |-> <<[col |-> col, item |-> item]>>])]

\* self.rows[index[0]][index[1]]
GetItem(ms, row, col) == LET row_dict == RowDict(ms, row) IN row_dict[CHOOSE j \in ColPos(row_dict, col) : TRUE].item

RECURSIVE SumLen(_)
SumLen(rows) == IF rows = << >> THEN 0 ELSE Len(Head(rows).cols) + SumLen(Tail(rows))

\* __len__
MSLen(ms) == SumLen(ms.rows)

\* items(): the set of ((row, col), item) pairs it yields
RowItems(r) == {<<<<r.row, r.cols[j].col>>, r.cols[j].item>> : j \in 1 .. Len(r.cols)}

Items(ms) == UNION {RowItems(ms.rows[i]) : i \in 1 .. Len(ms.rows)}

Max(S) == CHOOSE m \in S : \A x \in S : x <= m

\* the loop of to_csr over range(num_rows), from row on: the entries copied
RECURSIVE CsrEntries(_, _, _)
\* the entries copied row after row as the rows were inserted, as items() goes
CsrEntriesInsertionOrder(ms, row, num_rows) ==
    IF ms.rows = << >> THEN << >>
    ELSE Head(ms.rows).cols \o CsrEntries([ms EXCEPT !.rows = Tail(@)], row, num_rows)

CsrEntries(ms, row, num_rows) ==
    IF row >= num_rows THEN << >>
    ELSE (IF HasRow(ms, row) THEN RowDict(ms, row) ELSE << >>) \o CsrEntries(ms, row + 1, num_rows)

RECURSIVE CsrPointers(_, _, _, _)
\* pointers that count the entries of each row on its own
CsrPointersPerRow(ms, row, num_rows, data_index) ==
    IF row >= num_rows THEN << >>
    ELSE LET next_index == IF HasRow(ms, row) THEN Len(RowDict(ms, row)) ELSE 0
         IN <<next_index>> \o CsrPointers(ms, row + 1, num_rows, next_index)

\* the same loop: the values of data_index appended to indptr
CsrPointers(ms, row, num_rows, data_index) ==
    IF row >= num_rows THEN << >>
    ELSE LET next_index == data_index + (IF HasRow(ms, row) THEN Len(RowDict(ms, row)) ELSE 0)
         IN <<next_index>> \o CsrPointers(ms, row + 1, num_rows, next_index)

Raised(err) == [ok |-> FALSE, err |-> err, arrays |-> << >>]

NoCsr == Raised("none")

\* lines 93-105 and 113-124 of to_csr: the arrays, made with np.empty, so that
\* a slot the loop never writes holds fill
CsrArrays(subarrays, num_objs, entries, pointers, fill) ==
    LET indices == [k \in 1 .. num_objs |-> IF k <= Len(entries) THEN entries[k].col ELSE fill]
        indptr == <<0>> \o pointers
        data_arrays == [s \in 1 .. Len(subarrays) |->
                           [shape |-> <<num_objs>> \o subarrays[s],
                            elems |-> [k \in 1 .. num_objs |-> IF k <= Len(entries) THEN entries[k].item[s] ELSE fill]]]
    IN data_arrays \o <<[shape |-> <<num_objs>>, elems |-> indices], [shape |-> <<Len(indptr)>>, elems |-> indptr]>>

\* to_csr taking the store without rows for a matrix of no rows
ToCsrEmptyOk(ms, fill) ==
    LET num_rows == IF ms.rows = << >> THEN 0 ELSE Max(RowKeySet(ms)) + 1
    IN [ok |-> TRUE, err |-> "none", arrays |-> CsrArrays(ms.subarrays, MSLen(ms), CsrEntries(ms, 0, num_rows), CsrPointers(ms, 0, num_rows, 0), fill)]

\* to_csr: data_arrays + [indices, indptr]; max() of no keys raises
ToCsr(ms, fill) ==
    IF ms.rows = << >> THEN Raised("ValueError")
    ELSE LET num_rows == Max(RowKeySet(ms)) + 1
         IN [ok |-> TRUE, err |-> "none", arrays |-> CsrArrays(ms.subarrays, MSLen(ms), CsrEntries(ms, 0, num_rows), CsrPointers(ms, 0, num_rows, 0), fill)]

(***************************************************************************)
(* Reading a converted result.                                             *)
(***************************************************************************)
Indices(arrays) == arrays[Len(arrays) - 1].elems

Indptr(arrays) == arrays[Len(arrays)].elems

NumData(arrays) == Len(arrays) - 2

\* the entries of row r: positions indptr[r] .. indptr[r+1]-1, counted from 0
CsrRow(arrays, r) == {<<<<r, Indices(arrays)[k + 1]>>, [s \in 1 .. NumData(arrays) |-> arrays[s].elems[k + 1]]>> : k \in Indptr(arrays)[r + 1] .. (Indptr(arrays)[r + 2] - 1)}

\* the (row, col) -> item mapping read back from the arrays
CsrItems(arrays) == UNION {CsrRow(arrays, r) : r \in 0 .. (Len(Indptr(arrays)) - 2)}

(***************************************************************************)
(* A MultiSparse store used on its own: any insertions, then conversions.  *)
(***************************************************************************)
SubarrayChoices == {<< << >> >>, << <<2>>, <<2, 3, 3>> >>}

ItemsFor(subarrays) == [1 .. Len(subarrays) -> SubValues]

Workers == 1 .. NumWorkers

\* the thread of the single-threaded program
MainThread == CHOOSE w \in Workers : \A v \in Workers : w <= v

NoResult == [ended |-> "none", key |-> << >>, obj |-> 0, value |-> << >>]

NoArgs == [basis |-> 0, num_terms |-> 0, rel_tol |-> 0, normals |-> 0]

NoTerms == [T_EFIE |-> MultiSparse(<< >>), T_MFIE |-> MultiSparse(<< >>), N_MFIE |-> MultiSparse(<< >>)]

NoWork == [quadratures |-> 0, adjacency |-> 0]

CallsIdle ==
    /\ cached_singular_terms = << >>
    /\ nextObj = 1
    /\ calls = 0
    /\ pc = [w \in Workers |-> "idle"]
    /\ args = [w \in Workers |-> NoArgs]
    /\ unique_id = [w \in Workers |-> << >>]
    /\ p = [w \in Workers |-> 0]
    /\ sharing_triangles = [w \in Workers |-> {}]
    /\ singular_terms = [w \in Workers |-> NoTerms]
    /\ result = [w \in Workers |-> NoResult]
    /\ work = [w \in Workers |-> NoWork]
    /\ first = << >>
    /\ requested = {}

NoSelection == [ended |-> "none", indices |-> << >>, value |-> << >>]

ModesIdle ==
    /\ modes = << >>
    /\ selection = NoSelection
    /\ conjugations = 0
    /\ pairing = [growing |-> FALSE, own |-> FALSE]

RefinerIdle ==
    /\ estimates = << >>
    /\ max_iter = 0
    /\ rpc = "idle"
    /\ estimate_index = 0
    /\ iterations = 0
    /\ current = 0
    /\ previous = 0
    /\ converged = FALSE
    /\ refined = << >>

InitMS ==
    /\ store \in {MultiSparse(s) : s \in SubarrayChoices}
    /\ csr = NoCsr
    /\ inserts = 0
    /\ CallsIdle
    /\ ModesIdle
    /\ RefinerIdle
    /\ script = << >>
    /\ set_order = "ascending"

MSSetItem ==
    /\ inserts < MaxInserts
    /\ \E row \in RowKeys, col \in ColKeys, item \in ItemsFor(store.subarrays) : store' = SetItem(store, row, col, item)
    /\ inserts' = inserts + 1
    /\ csr' = NoCsr
    /\ UNCHANGED callVars
    /\ UNCHANGED <<modeVars, refVars, script, set_order>>

MSToCsr ==
    /\ \E fill \in Garbage : csr' = ToCsr(store, fill)
    /\ UNCHANGED <<store, inserts>>
    /\ UNCHANGED callVars
    /\ UNCHANGED <<modeVars, refVars, script, set_order>>

NextMS == MSSetItem \/ MSToCsr

SpecMS == InitMS /\ [][NextMS]_vars

(***************************************************************************)
(* The arguments of singular_impedance_rwg.                                *)
(***************************************************************************)
\* two triangles sharing an edge, a third touching neither
MiddleAlone == << <<0, 1, 2>>, <<5, 6, 7>>, <<1, 2, 3>> >>

\* two triangles sharing one node, the last triangle touching neither
TailAlone == << <<0, 1, 2>>, <<2, 3, 4>>, <<5, 6, 7>> >>

\* a mesh of one triangle
Single == << <<0, 1, 2>> >>

\* the last basis is not a LinearTriangleBasis and carries the id of the first
Bases == {[id |-> 1, kind |-> "LinearTriangleBasis", polygons |-> MiddleAlone],
          [id |-> 2, kind |-> "LinearTriangleBasis", polygons |-> TailAlone],
          [id |-> 3, kind |-> "LinearTriangleBasis", polygons |-> Single],
          [id |-> 1, kind |-> "Other", polygons |-> MiddleAlone]}

RelTols == 1 .. NumTols

TermCounts == 1 .. NumTermCounts

\* normals arrays: the first two are distinct arrays of equal content
NormalsArrays == {[array |-> 1, content |-> <<1, 1, 1>>],
                  [array |-> 2, content |-> <<1, 1, 1>>],
                  [array |-> 3, content |-> <<2, 1, 1>>]}

NumFaces(polygons) == Len(polygons)

Faces(polygons) == 0 .. (NumFaces(polygons) - 1)

\* polygons[t] for a triangle index t counted from 0
Polygon(polygons, t) == polygons[t + 1]

NodesOf(triangle) == {triangle[k] : k \in 1 .. Len(triangle)}

\* basis.mesh.triangles_sharing_nodes(): node -> the triangles containing it
TrianglesSharingNodes(polygons) == [node \in UNION {NodesOf(Polygon(polygons, t)) : t \in Faces(polygons)} |-> {t \in Faces(polygons) : node \in NodesOf(Polygon(polygons, t))}]

\* the same, keeping of the sources only p and the triangles after it
SharingTrianglesLater(polygons, sharing_nodes, obs) ==
    {src \in UNION {sharing_nodes[node] : node \in NodesOf(Polygon(polygons, obs))} : src >= obs}

\* the same, looking at the first node of polygons[p] only
SharingTrianglesFirstNode(polygons, sharing_nodes, obs) ==
    sharing_nodes[Polygon(polygons, obs)[1]]

\* lines 189-191: the union over the nodes of polygons[p] of sharing_nodes[node]
SharingTriangles(polygons, sharing_nodes, obs) == UNION {sharing_nodes[node] : node \in NodesOf(Polygon(polygons, obs))}

\* hashlib.sha1(normals).hexdigest(): a digest of the bytes of the array
Sha1(normals) == <<"sha1", normals.content>>

\* a key made from the identity of the normals array
UniqueIdByArray(basis, num_terms, rel_tol, normals) == <<"RWG", basis.id, rel_tol, <<"sha1", normals.array>>, num_terms>>

\* a key that leaves the tolerance out
UniqueIdNoTol(basis, num_terms, rel_tol, normals) == <<"RWG", basis.id, 0, Sha1(normals), num_terms>>

\* a key that leaves the digest of the normals out
UniqueIdNoHash(basis, num_terms, rel_tol, normals) == <<"RWG", basis.id, rel_tol, <<"sha1", << >>>>, num_terms>>

\* line 162
UniqueId(basis, num_terms, rel_tol, normals) == <<"RWG", basis.id, rel_tol, Sha1(normals), num_terms>>

\* a check that lets every basis pass
IsLinearTriangleBasisAny(basis) == TRUE

\* isinstance(basis, LinearTriangleBasis)
IsLinearTriangleBasis(basis) == basis.kind = "LinearTriangleBasis"

\* face_integrals_yla_oijala(nodes[polygons[q]], rule.points, rule.weights,
\* nodes[polygons[p]], normal_o=normal): the four results res[0] .. res[3]
FaceIntegrals(nodes_q, nodes_p, normal_o) == [k \in 1 .. 4 |-> <<k - 1, nodes_q, nodes_p, normal_o>>]

Res(res, k) == res[k + 1]

\* the stores with the two arrays of T_EFIE declared the other way round
NewTermsVectorFirst(num_terms) ==
    [T_EFIE |-> MultiSparse(<< <<num_terms, 3, 3>>, <<num_terms>> >>),
     T_MFIE |-> MultiSparse(<< <<num_terms, 3, 3>> >>),
     N_MFIE |-> MultiSparse(<< <<num_terms, 3, 3>> >>)]

\* the three empty stores of a computation
NewTerms(num_terms) ==
    [T_EFIE |-> MultiSparse(<< <<num_terms>>, <<num_terms, 3, 3>> >>),
     T_MFIE |-> MultiSparse(<< <<num_terms, 3, 3>> >>),
     N_MFIE |-> MultiSparse(<< <<num_terms, 3, 3>> >>)]

\* the stores filled without the test q != p
StoreTermsAlsoSelf(terms, obs, src, res) ==
    [T_EFIE |-> SetItem(terms.T_EFIE, obs, src, <<Res(res, 1), Res(res, 0)>>),
     T_MFIE |-> SetItem(terms.T_MFIE, obs, src, <<Res(res, 3)>>),
     N_MFIE |-> SetItem(terms.N_MFIE, obs, src, <<Res(res, 2)>>)]

\* the stores filled with the N_MFIE store outside the test q != p
StoreTermsNormalAlways(terms, obs, src, res) ==
    [T_EFIE |-> SetItem(terms.T_EFIE, obs, src, <<Res(res, 1), Res(res, 0)>>),
     T_MFIE |-> IF src # obs THEN SetItem(terms.T_MFIE, obs, src, <<Res(res, 3)>>) ELSE terms.T_MFIE,
     N_MFIE |-> SetItem(terms.N_MFIE, obs, src, <<Res(res, 2)>>)]

\* the stores filled with observer and source exchanged in the key
StoreTermsTransposed(terms, obs, src, res) ==
    [T_EFIE |-> SetItem(terms.T_EFIE, src, obs, <<Res(res, 1), Res(res, 0)>>),
     T_MFIE |-> IF src # obs THEN SetItem(terms.T_MFIE, src, obs, <<Res(res, 3)>>) ELSE terms.T_MFIE,
     N_MFIE |-> IF src # obs THEN SetItem(terms.N_MFIE, src, obs, <<Res(res, 2)>>) ELSE terms.N_MFIE]

\* lines 203-207: the body of the inner loop after the quadrature
StoreTerms(terms, obs, src, res) ==
    [T_EFIE |-> SetItem(terms.T_EFIE, obs, src, <<Res(res, 1), Res(res, 0)>>),
     T_MFIE |-> IF src # obs THEN SetItem(terms.T_MFIE, obs, src, <<Res(res, 3)>>) ELSE terms.T_MFIE,
     N_MFIE |-> IF src # obs THEN SetItem(terms.N_MFIE, obs, src, <<Res(res, 2)>>) ELSE terms.N_MFIE]

Labels == <<"T_EFIE", "T_MFIE", "N_MFIE">>

\* {k: v.to_csr(order="F") for k, v in singular_terms.items()}
Converted(terms, fill) == [k \in {Labels[n] : n \in 1 .. Len(Labels)} |-> ToCsr(terms[k], fill)]

Returned(key, object) == [ended |-> "returned", key |-> key, obj |-> object.obj, value |-> object.value]

Failed(key, err) == [ended |-> err, key |-> key, obj |-> 0, value |-> << >>]

\* a dictionary rebuilt with the one key
DictSetOnly(d, key, value) == [k \in {key} |-> value]

\* d[key] = value on a dictionary
DictSet(d, key, value) == [k \in DOMAIN d \cup {key} |-> IF k = key THEN value ELSE d[k]]

\* what the caller sees of the key: the basis id, the tolerance, the number of
\* terms and the content of the normals array
Material(basis, num_terms, rel_tol, normals) == <<basis.id, rel_tol, num_terms, normals.content>>

\* the arguments as the computation reads them: of normals, after the digest,
\* only the rows normals[p] are read
Locals(basis, num_terms, rel_tol, normals) == [basis |-> basis, num_terms |-> num_terms, rel_tol |-> rel_tol, normals |-> normals.content]

\* the object first returned for a key material, kept for the claims
NoteFirst(material, obj) == IF material \in DOMAIN first THEN first ELSE [m \in DOMAIN first \cup {material} |-> IF m = material THEN obj ELSE first[m]]

ClearLocals(w) ==
    /\ pc' = [pc EXCEPT ![w] = "idle"]
    /\ args' = [args EXCEPT ![w] = NoArgs]
    /\ unique_id' = [unique_id EXCEPT ![w] = << >>]
    /\ p' = [p EXCEPT ![w] = 0]
    /\ sharing_triangles' = [sharing_triangles EXCEPT ![w] = {}]
    /\ singular_terms' = [singular_terms EXCEPT ![w] = NoTerms]

(***************************************************************************)
(* singular_impedance_rwg, one action per step a thread switch can divide. *)
(***************************************************************************)
\* lines 155-156: the basis is rejected
CallRejected(w, basis, num_terms, rel_tol, normals) ==
    /\ pc[w] = "idle"
    /\ calls < MaxCalls
    /\ ~IsLinearTriangleBasis(basis)
    /\ calls' = calls + 1
    /\ result' = [result EXCEPT ![w] = Failed(<< >>, "ValueError")]
    /\ work' = [work EXCEPT ![w] = NoWork]
    /\ UNCHANGED <<cached_singular_terms, nextObj, pc, args, unique_id, p, sharing_triangles, singular_terms, first, requested>>
    /\ UNCHANGED msVars
    /\ UNCHANGED <<modeVars, refVars, script, set_order>>

\* a hit that stores a copy of the entry back under its key
CallHitRefreshes(w, basis, num_terms, rel_tol, normals) ==
    /\ pc[w] = "idle"
    /\ calls < MaxCalls
    /\ IsLinearTriangleBasis(basis)
    /\ LET key == UniqueId(basis, num_terms, rel_tol, normals)
       IN /\ key \in DOMAIN cached_singular_terms
          /\ cached_singular_terms' = DictSet(cached_singular_terms, key, [obj |-> nextObj, value |-> cached_singular_terms[key].value])
          /\ result' = [result EXCEPT ![w] = Returned(key, cached_singular_terms'[key])]
          /\ first' = NoteFirst(Material(basis, num_terms, rel_tol, normals), cached_singular_terms[key].obj)
    /\ nextObj' = nextObj + 1
    /\ requested' = requested \cup {Material(basis, num_terms, rel_tol, normals)}
    /\ calls' = calls + 1
    /\ work' = [work EXCEPT ![w] = NoWork]
    /\ UNCHANGED <<pc, args, unique_id, p, sharing_triangles, singular_terms>>
    /\ UNCHANGED msVars
    /\ UNCHANGED <<modeVars, refVars, script, set_order>>

\* lines 161-164: the key is in the cache
CallHit(w, basis, num_terms, rel_tol, normals) ==
    /\ pc[w] = "idle"
    /\ calls < MaxCalls
    /\ IsLinearTriangleBasis(basis)
    /\ LET key == UniqueId(basis, num_terms, rel_tol, normals)
       IN /\ key \in DOMAIN cached_singular_terms
          /\ result' = [result EXCEPT ![w] = Returned(key, cached_singular_terms[key])]
          /\ first' = NoteFirst(Material(basis, num_terms, rel_tol, normals), cached_singular_terms[key].obj)
    /\ requested' = requested \cup {Material(basis, num_terms, rel_tol, normals)}
    /\ calls' = calls + 1
    /\ work' = [work EXCEPT ![w] = NoWork]
    /\ UNCHANGED <<cached_singular_terms, nextObj, pc, args, unique_id, p, sharing_triangles, singular_terms>>
    /\ UNCHANGED msVars
    /\ UNCHANGED <<modeVars, refVars, script, set_order>>

\* lines 161-191: the key is missing; up to the first sharing_triangles
CallMiss(w, basis, num_terms, rel_tol, normals) ==
    /\ pc[w] = "idle"
    /\ calls < MaxCalls
    /\ IsLinearTriangleBasis(basis)
    /\ LET key == UniqueId(basis, num_terms, rel_tol, normals)
       IN /\ key \notin DOMAIN cached_singular_terms
          /\ unique_id' = [unique_id EXCEPT ![w] = key]
    /\ calls' = calls + 1
    /\ pc' = [pc EXCEPT ![w] = "loop"]
    /\ args' = [args EXCEPT ![w] = Locals(basis, num_terms, rel_tol, normals)]
    /\ p' = [p EXCEPT ![w] = 0]
    /\ sharing_triangles' = [sharing_triangles EXCEPT ![w] = SharingTriangles(basis.polygons, TrianglesSharingNodes(basis.polygons), 0)]
    /\ singular_terms' = [singular_terms EXCEPT ![w] = NewTerms(num_terms)]
    /\ result' = [result EXCEPT ![w] = NoResult]
    /\ work' = [work EXCEPT ![w] = [quadratures |-> 0, adjacency |-> 1]]
    /\ requested' = requested \cup {Material(basis, num_terms, rel_tol, normals)}
    /\ UNCHANGED <<cached_singular_terms, nextObj, first>>
    /\ UNCHANGED msVars
    /\ UNCHANGED <<modeVars, refVars, script, set_order>>

\* line 193: the orders in which for q in sharing_triangles may visit a set;
\* the order is a function of the set, the same at every visit
SetOrders == {"ascending", "descending"}

Min(S) == CHOOSE m \in S : \A x \in S : m <= x

\* the next source the loop of line 193 takes from the sources left
NextSource(sources) == IF set_order = "ascending" THEN Min(sources) ELSE Max(sources)

\* the loop taking the sources of a set in an order of its own at every visit
IntegrateAnyOrder(w) ==
    /\ pc[w] = "loop"
    /\ \E q \in sharing_triangles[w] :
        LET polygons == args[w].basis.polygons
            normal == args[w].normals[p[w] + 1]
            res == FaceIntegrals(Polygon(polygons, q), Polygon(polygons, p[w]), normal)
            rest == sharing_triangles[w] \ {q}
        IN /\ singular_terms' = [singular_terms EXCEPT ![w] = StoreTerms(@, p[w], q, res)]
           /\ work' = [work EXCEPT ![w].quadratures = @ + 1]
           /\ IF rest # {}
              THEN /\ sharing_triangles' = [sharing_triangles EXCEPT ![w] = rest]
                   /\ UNCHANGED <<p, pc>>
              ELSE IF p[w] + 1 < NumFaces(polygons)
              THEN /\ p' = [p EXCEPT ![w] = @ + 1]
                   /\ sharing_triangles' = [sharing_triangles EXCEPT ![w] = SharingTriangles(polygons, TrianglesSharingNodes(polygons), p[w] + 1)]
                   /\ UNCHANGED pc
              ELSE /\ pc' = [pc EXCEPT ![w] = "convert"]
                   /\ sharing_triangles' = [sharing_triangles EXCEPT ![w] = {}]
                   /\ UNCHANGED p
    /\ UNCHANGED <<cached_singular_terms, nextObj, calls, args, unique_id, result, first, requested>>
    /\ UNCHANGED msVars
    /\ UNCHANGED <<modeVars, refVars, script, set_order>>

\* lines 193-207 for one source q, then the loop heads of lines 193 and 188
Integrate(w) ==
    /\ pc[w] = "loop"
    /\ sharing_triangles[w] # {}
    /\ LET q == NextSource(sharing_triangles[w])
           polygons == args[w].basis.polygons
           normal == args[w].normals[p[w] + 1]
           res == FaceIntegrals(Polygon(polygons, q), Polygon(polygons, p[w]), normal)
           rest == sharing_triangles[w] \ {q}
       IN  /\ singular_terms' = [singular_terms EXCEPT ![w] = StoreTerms(@, p[w], q, res)]
           /\ work' = [work EXCEPT ![w].quadratures = @ + 1]
           /\ IF rest # {}
              THEN /\ sharing_triangles' = [sharing_triangles EXCEPT ![w] = rest]
                   /\ UNCHANGED <<p, pc>>
              ELSE IF p[w] + 1 < NumFaces(polygons)
              THEN /\ p' = [p EXCEPT ![w] = @ + 1]
                   /\ sharing_triangles' = [sharing_triangles EXCEPT ![w] = SharingTriangles(polygons, TrianglesSharingNodes(polygons), p[w] + 1)]
                   /\ UNCHANGED pc
              ELSE /\ pc' = [pc EXCEPT ![w] = "convert"]
                   /\ sharing_triangles' = [sharing_triangles EXCEPT ![w] = {}]
                   /\ UNCHANGED p
    /\ UNCHANGED <<cached_singular_terms, nextObj, calls, args, unique_id, result, first, requested>>
    /\ UNCHANGED msVars
    /\ UNCHANGED <<modeVars, refVars, script, set_order>>

\* a failure that leaves an entry for the key behind
QuadratureFailsCachesPartial(w) ==
    /\ pc[w] = "loop"
    /\ sharing_triangles[w] # {}
    /\ result' = [result EXCEPT ![w] = Failed(unique_id[w], "QuadratureFailure")]
    /\ work' = [work EXCEPT ![w].quadratures = @ + 1]
    /\ ClearLocals(w)
    /\ cached_singular_terms' = DictSet(cached_singular_terms, unique_id[w], [obj |-> nextObj, value |-> << >>])
    /\ UNCHANGED <<nextObj, calls, first, requested>>
    /\ UNCHANGED msVars
    /\ UNCHANGED <<modeVars, refVars, script, set_order>>

\* line 196: the quadrature raises; nothing in lines 188-207 catches it
QuadratureFails(w) ==
    /\ pc[w] = "loop"
    /\ sharing_triangles[w] # {}
    /\ result' = [result EXCEPT ![w] = Failed(unique_id[w], "QuadratureFailure")]
    /\ work' = [work EXCEPT ![w].quadratures = @ + 1]
    /\ ClearLocals(w)
    /\ UNCHANGED <<cached_singular_terms, nextObj, calls, first, requested>>
    /\ UNCHANGED msVars
    /\ UNCHANGED <<modeVars, refVars, script, set_order>>

\* the dictionary stored when every conversion succeeded
NewObject(converted, obj) == [obj |-> obj, value |-> [k \in DOMAIN converted |-> converted[k].arrays]]

AllConverted(converted) == \A k \in DOMAIN converted : converted[k].ok

\* lines 211-213: the conversions, then the store into the cache
ConvertStores(w, converted) ==
    /\ AllConverted(converted)
    /\ cached_singular_terms' = DictSet(cached_singular_terms, unique_id[w], NewObject(converted, nextObj))

Convert(w) ==
    /\ pc[w] = "convert"
    /\ \E fill \in Garbage : ConvertStores(w, Converted(singular_terms[w], fill))
    /\ nextObj' = nextObj + 1
    /\ pc' = [pc EXCEPT ![w] = "return"]
    /\ UNCHANGED <<calls, args, unique_id, p, sharing_triangles, singular_terms, result, work, first, requested>>
    /\ UNCHANGED msVars
    /\ UNCHANGED <<modeVars, refVars, script, set_order>>

\* lines 211-213: a conversion raises
ConvertFails(w) ==
    /\ pc[w] = "convert"
    /\ \E fill \in Garbage : ~AllConverted(Converted(singular_terms[w], fill))
    /\ result' = [result EXCEPT ![w] = Failed(unique_id[w], "ValueError")]
    /\ ClearLocals(w)
    /\ UNCHANGED <<cached_singular_terms, nextObj, calls, work, first, requested>>
    /\ UNCHANGED msVars
    /\ UNCHANGED <<modeVars, refVars, script, set_order>>

\* line 214
Return(w) ==
    /\ pc[w] = "return"
    /\ result' = [result EXCEPT ![w] = Returned(unique_id[w], cached_singular_terms[unique_id[w]])]
    /\ first' = NoteFirst(<<args[w].basis.id, args[w].rel_tol, args[w].num_terms, args[w].normals>>, cached_singular_terms[unique_id[w]].obj)
    /\ ClearLocals(w)
    /\ UNCHANGED <<cached_singular_terms, nextObj, calls, work, requested>>
    /\ UNCHANGED msVars
    /\ UNCHANGED <<modeVars, refVars, script, set_order>>

Init ==
    /\ store = MultiSparse(<< >>)
    /\ csr = NoCsr
    /\ inserts = 0
    /\ CallsIdle
    /\ ModesIdle
    /\ RefinerIdle
    /\ script = << >>
    /\ set_order \in SetOrders

\* the program as written: one thread
Next ==
    \/ \E basis \in Bases, num_terms \in TermCounts, rel_tol \in RelTols, normals \in NormalsArrays : CallRejected(MainThread, basis, num_terms, rel_tol, normals)
    \/ \E basis \in Bases, num_terms \in TermCounts, rel_tol \in RelTols, normals \in NormalsArrays : CallHit(MainThread, basis, num_terms, rel_tol, normals)
    \/ \E basis \in Bases, num_terms \in TermCounts, rel_tol \in RelTols, normals \in NormalsArrays : CallMiss(MainThread, basis, num_terms, rel_tol, normals)
    \/ Integrate(MainThread)
    \/ QuadratureFails(MainThread)
    \/ Convert(MainThread)
    \/ ConvertFails(MainThread)
    \/ Return(MainThread)

Spec == Init /\ [][Next]_vars

\* worker threads calling concurrently
NextThreads ==
    \/ \E w \in Workers, basis \in Bases, num_terms \in TermCounts, rel_tol \in RelTols, normals \in NormalsArrays : CallRejected(w, basis, num_terms, rel_tol, normals)
    \/ \E w \in Workers, basis \in Bases, num_terms \in TermCounts, rel_tol \in RelTols, normals \in NormalsArrays : CallHit(w, basis, num_terms, rel_tol, normals)
    \/ \E w \in Workers, basis \in Bases, num_terms \in TermCounts, rel_tol \in RelTols, normals \in NormalsArrays : CallMiss(w, basis, num_terms, rel_tol, normals)
    \/ \E w \in Workers : Integrate(w)
    \/ \E w \in Workers : QuadratureFails(w)
    \/ \E w \in Workers : Convert(w)
    \/ \E w \in Workers : ConvertFails(w)
    \/ \E w \in Workers : Return(w)

SpecThreads == Init /\ [][NextThreads]_vars

(***************************************************************************)
(* A caller that makes the calls of a script, one after the other.         *)
(***************************************************************************)
MaxScript == 2

\* the sequences over S of length n or less
RECURSIVE SeqsUpTo(_, _)
SeqsUpTo(S, n) == IF n = 0 THEN {<< >>} ELSE LET shorter == SeqsUpTo(S, n - 1) IN shorter \cup {Append(q, x) : q \in {r \in shorter : Len(r) = n - 1}, x \in S}

\* the calls of a script: the mesh of three triangles or the mesh of one, any
\* accuracy, any normals array
ScriptArgs == {a \in Bases \X TermCounts \X RelTols \X NormalsArrays : IsLinearTriangleBasis(a[1]) /\ a[1].polygons \in {MiddleAlone, Single}}

Scripts == SeqsUpTo(ScriptArgs, MaxScript)

InitScript ==
    /\ script \in Scripts
    /\ set_order \in SetOrders
    /\ store = MultiSparse(<< >>)
    /\ csr = NoCsr
    /\ inserts = 0
    /\ CallsIdle
    /\ ModesIdle
    /\ RefinerIdle

\* the next call of the script finds its key
ScriptedHit ==
    /\ calls < Len(script)
    /\ CallHit(MainThread, script[calls + 1][1], script[calls + 1][2], script[calls + 1][3], script[calls + 1][4])

\* the next call of the script finds its key missing
ScriptedMiss ==
    /\ calls < Len(script)
    /\ CallMiss(MainThread, script[calls + 1][1], script[calls + 1][2], script[calls + 1][3], script[calls + 1][4])

NextScript ==
    \/ ScriptedHit
    \/ ScriptedMiss
    \/ Integrate(MainThread)
    \/ QuadratureFails(MainThread)
    \/ Convert(MainThread)
    \/ ConvertFails(MainThread)
    \/ Return(MainThread)

SpecScript == InitScript /\ [][NextScript]_vars

(***************************************************************************)
(* The Mode Set: an ordered collection of Refined Modes (s, v_r, v_l).     *)
(* A complex number is a pair <<real part, imaginary part>> of integers.   *)
(***************************************************************************)
MaxModes == 2
MaxIndices == 2
MaxConjugations == 2
MaxImag == 2

\* the tolerance of the comparison of two frequencies, in grid units
STol == 1

Abs(x) == IF x < 0 THEN -x ELSE x

Conj(z) == <<z[1], -z[2]>>

\* two frequencies equal within the tolerance
Close(s, t) == Abs(s[1] - t[1]) <= STol /\ Abs(s[2] - t[2]) <= STol

Frequencies == {<<1, im>> : im \in {-MaxImag, 0, 1, MaxImag}}

RightVectors == {<<1, 1>>, <<1, -1>>}

LeftVectors == {<<2, 1>>, <<2, -1>>}

RefinedModes == [s : Frequencies, v_r : RightVectors, v_l : LeftVectors]

ModeSets == SeqsUpTo(RefinedModes, MaxModes)

\* index lists: every index of a set of MaxModes modes, and one beyond it
IndexLists == SeqsUpTo(0 .. MaxModes, MaxIndices)

\* a conjugate that keeps the frequency
ConjugateModeVectorsOnly(mode) == [s |-> mode.s, v_r |-> Conj(mode.v_r), v_l |-> Conj(mode.v_l)]

\* (s*, v_r*, v_l*)
ConjugateMode(mode) == [s |-> Conj(mode.s), v_r |-> Conj(mode.v_r), v_l |-> Conj(mode.v_l)]

\* whether mode i of M is paired with its conjugate within against: some mode
\* there has the frequency s* within the tolerance; own says whether the mode
\* may count as its own conjugate
Paired(M, i, against, own) == \E j \in 1 .. Len(against) : (own \/ j # i) /\ Close(against[j].s, Conj(M[i].s))

\* the pass over modes i .. Len(M) of M; out is the set built so far; growing
\* says whether a mode is compared with out or with M
RECURSIVE AddFrom(_, _, _, _, _)
AddFrom(M, i, out, growing, own) ==
    IF i > Len(M) THEN out
    ELSE IF Paired(M, i, IF growing THEN out ELSE M, own)
    THEN AddFrom(M, i + 1, out, growing, own)
    ELSE AddFrom(M, i + 1, Append(out, ConjugateMode(M[i])), growing, own)

\* a completion that gives every mode a conjugate
AddConjugatesToAll(M, growing, own) == M \o [i \in 1 .. Len(M) |-> ConjugateMode(M[i])]

\* add_conjugates(): the set with the conjugate of every unpaired mode appended
AddConjugates(M, growing, own) == AddFrom(M, 1, M, growing, own)

ValidIndex(M, index) == index >= 0 /\ index < Len(M)

\* a selection that skips the indices outside the set
SelectValidOnly(M, indices) == [ended |-> "returned", indices |-> indices, value |-> [k \in 1 .. Len(SelectSeq(indices, LAMBDA x : ValidIndex(M, x))) |-> M[SelectSeq(indices, LAMBDA x : ValidIndex(M, x))[k] + 1]]]

\* select(indices): the modes at the indices, or IndexOutOfRange
Select(M, indices) ==
    IF \E k \in 1 .. Len(indices) : ~ValidIndex(M, indices[k])
    THEN [ended |-> "IndexOutOfRange", indices |-> indices, value |-> << >>]
    ELSE [ended |-> "returned", indices |-> indices, value |-> [k \in 1 .. Len(indices) |-> M[indices[k] + 1]]]

InitModes ==
    /\ modes \in ModeSets
    /\ selection = NoSelection
    /\ conjugations = 0
    /\ pairing \in [growing : BOOLEAN, own : BOOLEAN]
    /\ store = MultiSparse(<< >>)
    /\ csr = NoCsr
    /\ inserts = 0
    /\ CallsIdle
    /\ RefinerIdle
    /\ script = << >>
    /\ set_order = "ascending"

\* selection = modes.select(indices)
ModesSelect(indices) ==
    /\ selection' = Select(modes, indices)
    /\ UNCHANGED <<modes, conjugations, pairing>>
    /\ UNCHANGED <<msVars, callVars, refVars, script, set_order>>

\* modes = modes.add_conjugates()
ModesAddConjugates ==
    /\ conjugations < MaxConjugations
    /\ modes' = AddConjugates(modes, pairing.growing, pairing.own)
    /\ conjugations' = conjugations + 1
    /\ selection' = NoSelection
    /\ UNCHANGED pairing
    /\ UNCHANGED <<msVars, callVars, refVars, script, set_order>>

NextModes ==
    \/ \E indices \in IndexLists : ModesSelect(indices)
    \/ ModesAddConjugates

SpecModes == InitModes /\ [][NextModes]_vars

(***************************************************************************)
(* The Pole Refiner: refine_poles(estimates, rel_tol, max_iter).  The      *)
(* operator is left open: an update step may give any iterate.             *)
(***************************************************************************)
MaxEstimates == 3
MaxIter == 2
MaxIterate == 3

\* the requested relative tolerance, as the fraction RelTolNum / RelTolDen
RelTolNum == 1

RelTolDen == 2

Iterates == 1 .. MaxIterate

EstimateLists == SeqsUpTo(Iterates, MaxEstimates)

\* the relative change from s to t is below the tolerance
Converges(s, t) == Abs(t - s) * RelTolDen < RelTolNum * Abs(t)

\* the refinement of estimate n begins
BeginEstimate(n) ==
    /\ estimate_index' = n
    /\ iterations' = 0
    /\ current' = estimates[n]
    /\ previous' = estimates[n]
    /\ converged' = FALSE

\* the loop over the estimates moves on, or ends
NextEstimate ==
    IF estimate_index < Len(estimates)
    THEN BeginEstimate(estimate_index + 1) /\ UNCHANGED rpc
    ELSE rpc' = "done" /\ UNCHANGED <<estimate_index, iterations, current, previous, converged>>

InitRefine ==
    /\ estimates \in EstimateLists
    /\ max_iter \in 0 .. MaxIter
    /\ rpc = "idle"
    /\ estimate_index = 0
    /\ iterations = 0
    /\ current = 0
    /\ previous = 0
    /\ converged = FALSE
    /\ refined = << >>
    /\ store = MultiSparse(<< >>)
    /\ csr = NoCsr
    /\ inserts = 0
    /\ CallsIdle
    /\ ModesIdle
    /\ script = << >>
    /\ set_order = "ascending"

\* refine_poles is called
RefineStart ==
    /\ rpc = "idle"
    /\ refined' = << >>
    /\ IF estimates = << >>
       THEN rpc' = "done" /\ UNCHANGED <<estimate_index, iterations, current, previous, converged>>
       ELSE rpc' = "refining" /\ BeginEstimate(1)
    /\ UNCHANGED <<estimates, max_iter>>
    /\ UNCHANGED <<msVars, callVars, modeVars, script, set_order>>

\* an update step allowed one step beyond the cap
RefineUpdateOneMore ==
    /\ rpc = "refining"
    /\ ~converged
    /\ iterations <= max_iter
    /\ \E t \in Iterates : current' = t /\ converged' = Converges(current, t)
    /\ previous' = current
    /\ iterations' = iterations + 1
    /\ UNCHANGED <<estimates, max_iter, rpc, estimate_index, refined>>
    /\ UNCHANGED <<msVars, callVars, modeVars, script, set_order>>

\* one update step of the iteration on the current estimate
RefineUpdate ==
    /\ rpc = "refining"
    /\ ~converged
    /\ iterations < max_iter
    /\ \E t \in Iterates : current' = t /\ converged' = Converges(current, t)
    /\ previous' = current
    /\ iterations' = iterations + 1
    /\ UNCHANGED <<estimates, max_iter, rpc, estimate_index, refined>>
    /\ UNCHANGED <<msVars, callVars, modeVars, script, set_order>>

\* the iteration converged: the mode is accepted
RefineAccept ==
    /\ rpc = "refining"
    /\ converged
    /\ refined' = Append(refined, [s |-> current, before |-> previous, estimate |-> estimate_index, iterations |-> iterations])
    /\ NextEstimate
    /\ UNCHANGED <<estimates, max_iter>>
    /\ UNCHANGED <<msVars, callVars, modeVars, script, set_order>>

\* a budget that runs out with the last iterate kept as a mode
RefineDropKeeps ==
    /\ rpc = "refining"
    /\ ~converged
    /\ ~(iterations < max_iter)
    /\ refined' = Append(refined, [s |-> current, before |-> previous, estimate |-> estimate_index, iterations |-> iterations])
    /\ NextEstimate
    /\ UNCHANGED <<estimates, max_iter>>
    /\ UNCHANGED <<msVars, callVars, modeVars, script, set_order>>

\* the budget ran out before convergence: the mode is dropped
RefineDrop ==
    /\ rpc = "refining"
    /\ ~converged
    /\ ~(iterations < max_iter)
    /\ NextEstimate
    /\ UNCHANGED <<estimates, max_iter, refined>>
    /\ UNCHANGED <<msVars, callVars, modeVars, script, set_order>>

NextRefine ==
    \/ RefineStart
    \/ RefineUpdate
    \/ RefineAccept
    \/ RefineDrop

SpecRefine == InitRefine /\ [][NextRefine]_vars

\* the refiner runs on: no step of it waits for anything
SpecRefineFair == InitRefine /\ [][NextRefine]_vars /\ WF_vars(NextRefine)

(***************************************************************************)
(* What the claims speak of.                                               *)
(***************************************************************************)
CallArgs == Bases \X TermCounts \X RelTols \X NormalsArrays

\* a step that starts a call of worker w with arguments a
CallWith(w, a) == CallRejected(w, a[1], a[2], a[3], a[4]) \/ CallHit(w, a[1], a[2], a[3], a[4]) \/ CallMiss(w, a[1], a[2], a[3], a[4])

MaterialOf(a) == <<a[1].id, a[3], a[2], a[4].content>>

\* the cache key of a key material: the tag, the basis id, the tolerance, the
\* fingerprint of the content of the normals, the number of terms
KeyFor(m) == <<"RWG", m[1], m[2], <<"sha1", m[4]>>, m[3]>>

\* the (row, col) keys of a store and of a converted result
Keys(ms) == {e[1] : e \in Items(ms)}

Pairs(arrays) == {e[1] : e \in CsrItems(arrays)}

Touching(polygons, a, b) == NodesOf(Polygon(polygons, a)) \cap NodesOf(Polygon(polygons, b)) # {}

TouchingPairs(polygons) == {pair \in Faces(polygons) \X Faces(polygons) : Touching(polygons, pair[1], pair[2])}

\* C1: once a call has returned for a key (basis id, rel_tol, num_terms and the
\* content of normals), every later call with that key made with the basis
\* returns the very object first returned for it, at once: no quadrature is
\* evaluated and no adjacency is computed.
C1_LaterCallsReturnSameObject ==
    [][\A a \in CallArgs :
        (/\ CallWith(MainThread, a)
         /\ a[1].kind = "LinearTriangleBasis"
         /\ MaterialOf(a) \in DOMAIN first)
        => /\ result'[MainThread].ended = "returned"
           /\ result'[MainThread].obj = first[MaterialOf(a)]
           /\ work'[MainThread] = NoWork
           /\ pc'[MainThread] = "idle"]_vars

\* a second call was answered with the object of the first, without any work
C1_Witness ==
    /\ calls = 2
    /\ nextObj = 2
    /\ pc[MainThread] = "idle"
    /\ result[MainThread].ended = "returned"
    /\ result[MainThread].obj = 1
    /\ work[MainThread] = NoWork

\* a call whose (rel_tol, num_terms) pair is that of no entry cached for its
\* basis and normals is not answered from the cache: it starts the computation
NovelPairRecomputes ==
    \A a \in CallArgs :
        (/\ CallWith(MainThread, a)
         /\ a[1].kind = "LinearTriangleBasis"
         /\ ~\E k \in DOMAIN cached_singular_terms : k[2] = a[1].id /\ k[4] = <<"sha1", a[4].content>> /\ k[3] = a[3] /\ k[5] = a[2])
        => /\ pc'[MainThread] = "loop"
           /\ result'[MainThread] = NoResult
           /\ work'[MainThread] = [quadratures |-> 0, adjacency |-> 1]
           /\ singular_terms'[MainThread] = NewTerms(a[2])
           /\ cached_singular_terms' = cached_singular_terms

\* between calls the cache holds one entry, an object of its own, for each of
\* the key materials ms and for nothing else
OneEntryPerKey(ms) ==
    pc'[MainThread] = "idle" =>
        /\ DOMAIN cached_singular_terms' = {KeyFor(m) : m \in ms}
        /\ \A k1, k2 \in DOMAIN cached_singular_terms' : k1 # k2 => cached_singular_terms'[k1].obj # cached_singular_terms'[k2].obj

C3_OtherBasisRejected ==
    [][\A a \in CallArgs :
        (CallWith(MainThread, a) /\ a[1].kind # "LinearTriangleBasis")
        => /\ result'[MainThread].ended = "ValueError"
           /\ result'[MainThread].value = << >>
           /\ work'[MainThread] = NoWork
           /\ pc'[MainThread] = "idle"
           /\ cached_singular_terms' = cached_singular_terms
           /\ nextObj' = nextObj]_vars

\* a call was rejected while an entry of its basis id was in the cache
C3_Witness ==
    /\ result[MainThread].ended = "ValueError"
    /\ result[MainThread].key = << >>
    /\ work[MainThread] = NoWork
    /\ \E k \in DOMAIN cached_singular_terms : \E b \in Bases : b.kind # "LinearTriangleBasis" /\ b.id = k[2]

\* C4: the T_MFIE and N_MFIE stores and results hold no self pair (p, p), and
\* the T_EFIE result holds (p, p) for every triangle p of the mesh.
C4_SelfPairs ==
    /\ \A e \in Keys(singular_terms[MainThread].T_MFIE) \cup Keys(singular_terms[MainThread].N_MFIE) : e[1] # e[2]
    /\ result[MainThread].ended = "returned" =>
        \A e \in Pairs(result[MainThread].value.T_MFIE) \cup Pairs(result[MainThread].value.N_MFIE) : e[1] # e[2]
    /\ pc[MainThread] = "return" =>
        LET value == cached_singular_terms[unique_id[MainThread]].value
        IN \A t \in Faces(args[MainThread].basis.polygons) :
            /\ <<t, t>> \in Pairs(value.T_EFIE)
            /\ <<t, t>> \notin Pairs(value.T_MFIE)
            /\ <<t, t>> \notin Pairs(value.N_MFIE)

\* a result of a mesh of several triangles is about to be returned
C4_Witness ==
    /\ pc[MainThread] = "return"
    /\ NumFaces(args[MainThread].basis.polygons) > 1
    /\ Pairs(cached_singular_terms[unique_id[MainThread]].value.T_MFIE) # {}

\* C5: the pairs stored in the T_EFIE store are exactly the pairs of triangles
\* that share a node, self pairs included; while the store is being filled it
\* holds only such pairs.
C5_StoredPairsAreTouchingPairs ==
    /\ pc[MainThread] \in {"convert", "return"} => Keys(singular_terms[MainThread].T_EFIE) = TouchingPairs(args[MainThread].basis.polygons)
    /\ pc[MainThread] = "loop" => Keys(singular_terms[MainThread].T_EFIE) \subseteq TouchingPairs(args[MainThread].basis.polygons)

\* the store of a mesh with touching and non-touching pairs is complete
C5_Witness ==
    /\ pc[MainThread] = "convert"
    /\ \E a, b \in Faces(args[MainThread].basis.polygons) : a # b /\ <<a, b>> \in Keys(singular_terms[MainThread].T_EFIE)
    /\ \E a, b \in Faces(args[MainThread].basis.polygons) : <<a, b>> \notin Keys(singular_terms[MainThread].T_EFIE)

\* C6: to_csr round-trips on every store: after a conversion, reading each row
\* r of the arrays as (r, indices[k]) -> (data_1[k], ..., data_n[k]) gives the
\* (row, col) -> item mapping of the store.
C6_RoundTrip == csr # NoCsr => (csr.ok /\ CsrItems(csr.arrays) = Items(store))

\* C7: when a quadrature raises, the call ends with that error, nothing is
\* added to the cache and nothing in it changes, the partial stores are gone,
\* and the next call with the same key starts the computation from nothing.
C7_QuadratureFailureAborts ==
    [][/\ (pc[MainThread] = "loop" /\ result'[MainThread].ended = "QuadratureFailure")
          => /\ cached_singular_terms' = cached_singular_terms
             /\ result'[MainThread].key = unique_id[MainThread]
             /\ unique_id[MainThread] \notin DOMAIN cached_singular_terms'
             /\ result'[MainThread].value = << >>
             /\ singular_terms'[MainThread] = NoTerms
             /\ pc'[MainThread] = "idle"
       /\ \A a \in CallArgs :
            (/\ CallWith(MainThread, a)
             /\ a[1].kind = "LinearTriangleBasis"
             /\ result[MainThread].ended = "QuadratureFailure"
             /\ result[MainThread].key = KeyFor(MaterialOf(a)))
            => /\ pc'[MainThread] = "loop"
               /\ p'[MainThread] = 0
               /\ singular_terms'[MainThread] = NewTerms(a[2])
               /\ work'[MainThread] = [quadratures |-> 0, adjacency |-> 1]]_vars

\* a quadrature raised after others had succeeded, with an entry in the cache
C7_Witness ==
    /\ result[MainThread].ended = "QuadratureFailure"
    /\ work[MainThread].quadratures > 1
    /\ DOMAIN cached_singular_terms # {}

\* C8: in one thread the cache only grows: a key stays, with the same object.
C8_CacheOnlyGrows == [][\A k \in DOMAIN cached_singular_terms : k \in DOMAIN cached_singular_terms' /\ cached_singular_terms'[k] = cached_singular_terms[k]]_vars

\* a second entry was added beside the first
C8_Witness == Cardinality(DOMAIN cached_singular_terms) = 2

\* C9: calls of two workers with the same key return the same object, also
\* when both found the key missing, and that object is the one in the cache.
C9_SingleWinner ==
    \A w1, w2 \in Workers :
        (/\ result[w1].ended = "returned"
         /\ result[w2].ended = "returned"
         /\ result[w1].key = result[w2].key)
        => /\ result[w1].obj = result[w2].obj
           /\ cached_singular_terms[result[w1].key].obj = result[w1].obj

\* C10: each converted result of a mesh of N triangles has N+1 row pointers,
\* and its row p holds exactly the stored pairs whose observer is p.
C10_RowsPerObserver ==
    pc[MainThread] = "return" =>
        \A label \in DOMAIN singular_terms[MainThread] :
            LET arrays == cached_singular_terms[unique_id[MainThread]].value[label]
                polygons == args[MainThread].basis.polygons
            IN /\ Len(Indptr(arrays)) = NumFaces(polygons) + 1
               /\ \A t \in Faces(polygons) : CsrRow(arrays, t) = {e \in Items(singular_terms[MainThread][label]) : e[1][1] = t}

\* the arrays of a converted result: num_data data arrays, then the index
\* array and the row-pointer array, every data array with one leading entry
\* per entry of the index array
FinalizedList(arrays, num_data) ==
    /\ Len(arrays) = num_data + 2
    /\ NumData(arrays) = num_data
    /\ arrays[num_data + 1].shape = <<Len(Indices(arrays))>>
    /\ arrays[num_data + 2].shape = <<Len(Indptr(arrays))>>
    /\ \A s \in 1 .. num_data : arrays[s].shape[1] = Len(Indices(arrays)) /\ Len(arrays[s].elems) = Len(Indices(arrays))

C12_AddConjugatesIdempotent == [][(conjugations >= 1 /\ conjugations' = conjugations + 1) => Len(modes') = Len(modes)]_vars

\* add_conjugates was applied twice, and the first time it added modes
C12_Witness ==
    /\ conjugations = 2
    /\ Len(modes) > MaxModes

\* C13: after add_conjugates every mode that was in the set is still in it, at
\* its place and with its (s, v_r, v_l); for every mode of the set there is a
\* mode whose frequency is s* within the tolerance; and every mode added is
\* the conjugate of a mode that had no conjugate in the set, at most one for
\* each such mode.
C13_ConjugatesCompleted ==
    [][conjugations' = conjugations + 1 =>
        /\ Len(modes') >= Len(modes)
        /\ \A i \in 1 .. Len(modes) : modes'[i] = modes[i]
        /\ \A i \in 1 .. Len(modes') : \E j \in 1 .. Len(modes') : Close(modes'[j].s, Conj(modes'[i].s))
        /\ \A k \in (Len(modes) + 1) .. Len(modes') :
            \E i \in 1 .. Len(modes) : modes'[k] = ConjugateMode(modes[i]) /\ ~Paired(modes, i, modes, pairing.own)
        /\ Len(modes') - Len(modes) <= Cardinality({i \in 1 .. Len(modes) : ~Paired(modes, i, modes, pairing.own)})]_vars

\* of a set of two modes of different frequencies exactly one mode, the
\* conjugate of the first, was added
C13_Witness ==
    /\ conjugations = 1
    /\ Len(modes) = 3
    /\ modes[3] = ConjugateMode(modes[1])
    /\ modes[2].s # modes[3].s

\* C14: select(indices) returns the modes at exactly the given 0-based
\* indices, each with the s, v_r and v_l of the mode at that index; if an index
\* is outside the set the call ends with IndexOutOfRange and returns nothing;
\* the Mode Set is left as it was.
C14_SelectExactOrFail ==
    [][\A indices \in IndexLists :
        ModesSelect(indices) =>
            /\ modes' = modes
            /\ IF \A k \in 1 .. Len(indices) : indices[k] \in 0 .. (Len(modes) - 1)
               THEN /\ selection'.ended = "returned"
                    /\ Len(selection'.value) = Len(indices)
                    /\ \A k \in 1 .. Len(indices) : selection'.value[k] = modes[indices[k] + 1]
               ELSE /\ selection'.ended = "IndexOutOfRange"
                    /\ selection'.value = << >>]_vars

\* a selection of two indices failed on its second index although the first
\* was in the set
C14_Witness ==
    /\ selection.ended = "IndexOutOfRange"
    /\ Len(selection.indices) = 2
    /\ selection.indices[1] < Len(modes)
    /\ selection.indices[2] >= Len(modes)
    /\ selection.value = << >>

\* C15: the Pole Refiner raises for no estimate that fails to converge within
\* max_iter iterations: the mode is dropped; the modes returned are converged
\* modes only, they come from different estimates in the order of the
\* estimates, and they are at most as many as the estimates.
C15_NonConvergedDropped ==
    /\ rpc \in {"idle", "refining", "done"}
    /\ Len(refined) <= Len(estimates)
    /\ \A k \in 1 .. Len(refined) :
        /\ refined[k].estimate \in 1 .. Len(estimates)
        /\ refined[k].iterations \in 1 .. max_iter
        /\ Converges(refined[k].before, refined[k].s)
    /\ \A k1, k2 \in 1 .. Len(refined) : k1 < k2 => refined[k1].estimate < refined[k2].estimate
    /\ rpc = "done" => estimate_index = Len(estimates)

\* of three estimates the second ran out of iterations and was dropped, the
\* first and the third were accepted
C15_Witness ==
    /\ rpc = "done"
    /\ Len(estimates) = 3
    /\ max_iter > 0
    /\ Len(refined) = 2
    /\ refined[1].estimate = 1
    /\ refined[2].estimate = 3

\* C16: the refinement of an estimate takes at most max_iter update steps, and
\* refine_poles on a finite sequence of estimates ends.
C16_RefinementTerminates == [](iterations <= max_iter) /\ <>(rpc = "done")

\* an estimate used every iteration of a budget of several without converging
C16_Witness ==
    /\ rpc = "refining"
    /\ max_iter = MaxIter
    /\ iterations = max_iter
    /\ ~converged

\* C17: a store is write-once per key: an item held under a (row, col) key is
\* held under it after every later insertion.
C17_WriteOncePerKey == [][\A e \in Items(store) : e \in Items(store')]_vars

\* a store whose row keys are all non-negative integers
NonNegativeRows(ms) == \A r \in RowKeySet(ms) : r >= 0

\* C18: for a non-empty store with non-negative row keys the row-pointer array
\* of to_csr starts at 0, never decreases and ends at len(store), the length
\* of the index array.
C18_RowPointers ==
    (csr # NoCsr /\ store.rows # << >> /\ NonNegativeRows(store)) =>
        /\ csr.ok
        /\ LET indptr == Indptr(csr.arrays)
           IN /\ indptr[1] = 0
              /\ \A r \in 1 .. (Len(indptr) - 1) : indptr[r] <= indptr[r + 1]
              /\ indptr[Len(indptr)] = MSLen(store)
              /\ Len(Indices(csr.arrays)) = MSLen(store)

\* a converted store of three items with an empty row between two rows
C18_Witness ==
    /\ csr.ok
    /\ NonNegativeRows(store)
    /\ MSLen(store) = 3
    /\ RowKeySet(store) = {0, 2}

\* C19: a call that finds its key in the cache changes nothing in the cache:
\* the keys and the object under every key are the same after it, also while
\* other threads look up or compute; it returns the object held under its key.
C19_HitLeavesCache ==
    [][\A w \in Workers, a \in CallArgs :
        CallHit(w, a[1], a[2], a[3], a[4]) =>
            /\ cached_singular_terms' = cached_singular_terms
            /\ nextObj' = nextObj
            /\ result'[w].obj = cached_singular_terms[result'[w].key].obj
            /\ \A v \in Workers \ {w} : pc'[v] = pc[v] /\ singular_terms'[v] = singular_terms[v]]_vars

\* a thread was answered from the cache while the thread that made the entry
\* had not yet returned
C19_Witness ==
    \E w, v \in Workers :
        /\ w # v
        /\ pc[v] = "return"
        /\ result[w].ended = "returned"
        /\ work[w] = NoWork
        /\ result[w].key = unique_id[v]

\* C20: the cache key follows the content of the normals array, not the array:
\* of two calls with the same basis, rel_tol and num_terms that both return,
\* those whose normals are equal in content, be they one array or two, get the
\* same object from one entry, and those whose normals differ in content get
\* different objects from two entries.
C20_KeyedByContent ==
    (/\ Len(script) = 2
     /\ calls = 2
     /\ pc[MainThread] = "idle"
     /\ result[MainThread].ended = "returned"
     /\ MaterialOf(script[1]) \in DOMAIN first
     /\ script[1][1] = script[2][1]
     /\ script[1][2] = script[2][2]
     /\ script[1][3] = script[2][3])
    => IF script[1][4].content = script[2][4].content
       THEN /\ result[MainThread].obj = first[MaterialOf(script[1])]
            /\ Cardinality(DOMAIN cached_singular_terms) = 1
            /\ nextObj = 2
       ELSE /\ result[MainThread].obj # first[MaterialOf(script[1])]
            /\ Cardinality(DOMAIN cached_singular_terms) = 2
            /\ \A k1, k2 \in DOMAIN cached_singular_terms : k1 # k2 => cached_singular_terms[k1].obj # cached_singular_terms[k2].obj

\* two calls with two arrays of equal content: the second was answered with
\* the object made for the first
C20_Witness ==
    /\ Len(script) = 2
    /\ calls = 2
    /\ pc[MainThread] = "idle"
    /\ script[1][1] = script[2][1]
    /\ script[1][2] = script[2][2]
    /\ script[1][3] = script[2][3]
    /\ script[1][4].array # script[2][4].array
    /\ script[1][4].content = script[2][4].content
    /\ result[MainThread].ended = "returned"
    /\ work[MainThread] = NoWork
    /\ result[MainThread].obj = 1

\* the quadrature of the pair (obs, src) of a call: observer obs, source src
\* and the normal of obs
PairQuadrature(a, obs, src) == FaceIntegrals(Polygon(a.basis.polygons, src), Polygon(a.basis.polygons, obs), a.normals[obs + 1])

\* C21: in one computation the quadrature is evaluated once for every ordered
\* touching pair (p, q), also for pairs sharing two or three nodes, and what
\* the three stores hold under (p, q) are the results of that one evaluation,
\* made with observer p, source q and the normal of p.
C21_OneQuadraturePerPair ==
    pc[MainThread] \in {"loop", "convert", "return"} =>
        LET terms == singular_terms[MainThread]
            a == args[MainThread]
        IN /\ work[MainThread].quadratures = MSLen(terms.T_EFIE)
           /\ pc[MainThread] # "loop" => work[MainThread].quadratures = Cardinality(TouchingPairs(a.basis.polygons))
           /\ \A e \in Items(terms.T_EFIE) : e[2] = <<Res(PairQuadrature(a, e[1][1], e[1][2]), 1), Res(PairQuadrature(a, e[1][1], e[1][2]), 0)>>
           /\ \A e \in Items(terms.T_MFIE) : e[2] = <<Res(PairQuadrature(a, e[1][1], e[1][2]), 3)>>
           /\ \A e \in Items(terms.N_MFIE) : e[2] = <<Res(PairQuadrature(a, e[1][1], e[1][2]), 2)>>
           /\ Keys(terms.T_MFIE) = Keys(terms.N_MFIE)
           /\ Keys(terms.T_MFIE) = {k \in Keys(terms.T_EFIE) : k[1] # k[2]}

\* the stores of a mesh with a pair sharing two nodes are complete after five
\* quadratures, under normals that differ between the triangles
C21_Witness ==
    /\ pc[MainThread] = "convert"
    /\ args[MainThread].basis.polygons = MiddleAlone
    /\ args[MainThread].normals[1] # args[MainThread].normals[3]
    /\ work[MainThread].quadratures = 5
    /\ <<0, 2>> \in Keys(singular_terms[MainThread].T_MFIE)

\* a Mode Set in the order of ascending imaginary part of s
Ascending(M) == \A i, j \in 1 .. Len(M) : i < j => M[i].s[2] <= M[j].s[2]

\* the modes of M are found in N in the order they have in M
RECURSIVE KeptInOrder(_, _)
KeptInOrder(M, N) ==
    IF M = << >> THEN TRUE
    ELSE IF N = << >> THEN FALSE
    ELSE IF Head(M) = Head(N) THEN KeptInOrder(Tail(M), Tail(N))
    ELSE KeptInOrder(M, Tail(N))

\* C22: select and add_conjugates keep a Mode Set in the order of ascending
\* imaginary part of s, and modes of equal imaginary part keep their relative
\* order: from an ordered set, add_conjugates gives an ordered set that holds
\* the given modes in their order, and select gives an ordered selection in
\* which modes of equal imaginary part come in the order of the set.
C22_OrderedByImaginaryPart ==
    [][Ascending(modes) =>
        /\ Ascending(modes')
        /\ KeptInOrder(modes, modes')
        /\ selection'.ended = "returned" =>
            /\ Ascending(selection'.value)
            /\ \A k1, k2 \in 1 .. Len(selection'.indices) :
                (k1 < k2 /\ selection'.value[k1].s[2] = selection'.value[k2].s[2]) => selection'.indices[k1] <= selection'.indices[k2]]_vars

\* the columns of row r of a converted result, in their order; none for a row
\* beyond the last row pointer
RowColumns(arrays, r) ==
    IF r + 2 > Len(Indptr(arrays)) THEN << >>
    ELSE SubSeq(Indices(arrays), Indptr(arrays)[r + 1] + 1, Indptr(arrays)[r + 2])

\* C23: the T_MFIE and N_MFIE results of a call have the same pattern, equal
\* index arrays and equal row-pointer arrays; the pattern is that of T_EFIE
\* with the self pairs removed, row by row and in the same order; so each
\* holds len(T_EFIE) - N entries for a mesh of N triangles.
C23_MfieSharePattern ==
    pc[MainThread] = "return" =>
        LET value == cached_singular_terms[unique_id[MainThread]].value
            polygons == args[MainThread].basis.polygons
        IN /\ Indices(value.T_MFIE) = Indices(value.N_MFIE)
           /\ Indptr(value.T_MFIE) = Indptr(value.N_MFIE)
           /\ Pairs(value.T_MFIE) = {k \in Pairs(value.T_EFIE) : k[1] # k[2]}
           /\ \A r \in Faces(polygons) : RowColumns(value.T_MFIE, r) = SelectSeq(RowColumns(value.T_EFIE, r), LAMBDA c : c # r)
           /\ Len(Indices(value.T_MFIE)) = Len(Indices(value.T_EFIE)) - NumFaces(polygons)
           /\ Len(Indices(value.N_MFIE)) = Len(Indices(value.T_EFIE)) - NumFaces(polygons)

\* a result whose T_EFIE holds five entries and whose MFIE results hold two
C23_Witness ==
    /\ pc[MainThread] = "return"
    /\ NumFaces(args[MainThread].basis.polygons) = 3
    /\ Len(Indices(cached_singular_terms[unique_id[MainThread]].value.T_EFIE)) = 5
    /\ Len(Indices(cached_singular_terms[unique_id[MainThread]].value.N_MFIE)) = 2

\* a mesh in which no two distinct triangles share a node
Untouching(polygons) == \A pair \in TouchingPairs(polygons) : pair[1] = pair[2]

\* C24: a call on a mesh in which no two distinct triangles share a node does
\* not return: its T_MFIE and N_MFIE stores are empty when the conversion is
\* reached, the conversion raises ValueError, and no step of the call adds an
\* entry to cached_singular_terms.
C24_UntouchingMeshRaises ==
    [][(pc[MainThread] # "idle" /\ Untouching(args[MainThread].basis.polygons)) =>
           /\ cached_singular_terms' = cached_singular_terms
           /\ pc'[MainThread] # "return"
           /\ result'[MainThread].ended # "returned"
           /\ pc[MainThread] = "convert" =>
                  /\ MSLen(singular_terms[MainThread].T_MFIE) = 0
                  /\ MSLen(singular_terms[MainThread].N_MFIE) = 0
                  /\ MSLen(singular_terms[MainThread].T_EFIE) = NumFaces(args[MainThread].basis.polygons)
                  /\ result'[MainThread] = Failed(unique_id[MainThread], "ValueError")]_vars

\* the call on the single triangle has ended in the conversion, after its one
\* quadrature, and the cache is empty
C24_Witness ==
    /\ result[MainThread].ended = "ValueError"
    /\ Len(result[MainThread].key) = 5
    /\ result[MainThread].key[2] \in {basis.id : basis \in {b \in Bases : Untouching(b.polygons)}}
    /\ work[MainThread].quadratures = 1
    /\ cached_singular_terms = << >>

\* a set of (row, col) pairs that holds (q, p) with every (p, q)
Symmetric(pairs) == \A pair \in pairs : <<pair[2], pair[1]>> \in pairs

\* C25: the pairs stored in T_EFIE are symmetric once the loop has ended, (p, q)
\* stored exactly when (q, p) is; in the compressed result column q appears in
\* row p exactly when column p appears in row q.
C25_EfiePairsSymmetric ==
    /\ pc[MainThread] \in {"convert", "return"} => Symmetric(Keys(singular_terms[MainThread].T_EFIE))
    /\ pc[MainThread] = "return" =>
           LET value == cached_singular_terms[unique_id[MainThread]].value
               faces == Faces(args[MainThread].basis.polygons)
               InRow(r, c) == \E k \in 1 .. Len(RowColumns(value.T_EFIE, r)) : RowColumns(value.T_EFIE, r)[k] = c
           IN /\ Symmetric(Pairs(value.T_EFIE))
              /\ \A r \in faces, c \in faces : InRow(r, c) <=> InRow(c, r)

\* a result that holds a pair of two distinct triangles both ways
C25_Witness ==
    /\ pc[MainThread] = "return"
    /\ {<<0, 2>>, <<2, 0>>} \subseteq Pairs(cached_singular_terms[unique_id[MainThread]].value.T_EFIE)
    /\ <<0, 1>> \notin Pairs(cached_singular_terms[unique_id[MainThread]].value.T_EFIE)

\* the key line 162 builds for a call of a script
ScriptKey(a) == UniqueId(a[1], a[2], a[3], a[4])

\* two calls of a script with the same basis, num_terms and normals array and
\* two values of rel_tol
DifferInTolOnly(a, b) == a[1] = b[1] /\ a[2] = b[2] /\ a[4] = b[4] /\ a[3] # b[3]

RowOrders(n) == {f \in [1 .. n -> 1 .. n] : \A i, j \in 1 .. n : f[i] = f[j] => i = j}

\* the store with the same rows inserted first in another order
Reordered(ms, f) == [ms EXCEPT !.rows = [i \in 1 .. Len(ms.rows) |-> ms.rows[f[i]]]]

\* the columns of a row dictionary, in insertion order
Columns(row_dict) == [j \in 1 .. Len(row_dict) |-> row_dict[j].col]

\* C27: what to_csr returns does not depend on the order in which the rows were
\* first inserted; it holds one row for every index from 0 to the largest
\* stored row, in ascending order, empty where the store has no such row, and
\* within a row the columns in the order of their first insertion.
C27_RowsAscendingColumnsAsInserted ==
    (csr # NoCsr /\ csr.ok) =>
        /\ \A f \in RowOrders(Len(store.rows)) : \E fill \in Garbage : ToCsr(Reordered(store, f), fill) = csr
        /\ Len(Indptr(csr.arrays)) = Max(RowKeySet(store)) + 2
        /\ \A r \in 0 .. Max(RowKeySet(store)) : RowColumns(csr.arrays, r) = (IF HasRow(store, r) THEN Columns(RowDict(store, r)) ELSE << >>)

\* the largest row inserted first with its columns in descending order, then
\* row 0, no row 1: the result has rows 0, 1, 2 and row 2 keeps its columns
C27_Witness ==
    /\ csr # NoCsr
    /\ csr.ok
    /\ Len(store.rows) = 2
    /\ store.rows[1].row = 2
    /\ store.rows[2].row = 0
    /\ Columns(store.rows[1].cols) = <<1, 0>>
    /\ Indptr(csr.arrays) = <<0, 1, 1, 3>>
    /\ Indices(csr.arrays) = <<0, 1, 0>>

\* C28: len(store) is the number of distinct (row, col) keys inserted and the
\* number of pairs items() yields; an insertion under a new key raises it by
\* one and keeps every key there was, an insertion under a key that is there
\* leaves the keys and len(store) as they were.
C28_LenCountsKeys ==
    /\ [](/\ MSLen(store) = Cardinality(Keys(store))
          /\ MSLen(store) = Cardinality(Items(store)))
    /\ [][inserts' = inserts + 1 =>
              \E key \in RowKeys \X ColKeys :
                  /\ Keys(store') = Keys(store) \cup {key}
                  /\ MSLen(store') = MSLen(store) + (IF key \in Keys(store) THEN 0 ELSE 1)]_vars

\* three insertions, one of them under a key that was there: two entries
C28_Witness ==
    /\ inserts = 3
    /\ MSLen(store) = 2
    /\ Cardinality(Items(store)) = 2
    /\ Len(store.rows) = 1

\* C29: to_csr leaves the store unchanged, the (row, col) -> item mapping and
\* len(store) are the same before and after the call, and a to_csr call that
\* follows another one with no insertion in between returns equal arrays.
C29_ToCsrLeavesStore ==
    [][inserts' = inserts =>
           /\ store' = store
           /\ Items(store') = Items(store)
           /\ MSLen(store') = MSLen(store)
           /\ csr # NoCsr => csr' = csr]_vars

====
